---- MODULE Spec2Model ----
(***************************************************************************)
(* Model of the Venn diagram builder (src/venn_app.py) and of the GO/KEGG  *)
(* enrichment visualizer (src/GOKEGG.py).                                  *)
(*                                                                         *)
(* A Python str is a sequence of one-character strings; the character      *)
(* U+2229 (the intersection sign used in " ∩ ".join) is written "cap".     *)
(* A Python set is a set, a list a sequence, and a dict (which keeps the   *)
(* insertion order of its keys) a sequence of <<key, value>> pairs with    *)
(* pairwise different keys.                                                *)
(***************************************************************************)
EXTENDS Naturals, Sequences, FiniteSets, TLC

VARIABLES
    pc,               \* position of the program being run
    arg, ret,         \* a call of the item normalizer and what it returned
    mode, n_sets, split_mode, case_sensitive, set_names,  \* sidebar widgets
    files, pastes,    \* uploaded files / pasted texts of the main page
    sets_dict,        \* venn_app.py: the named sets of the run
    outcome,          \* what the run of the script showed
    inter_df, inter_dict, exclusive_dict,  \* venn_app.py: the run's tables
    input_method, gene_input, annotation_file, sort_by, top_n,  \* GOKEGG.py inputs
    gene_list, term_stats  \* GOKEGG.py: the query and the enrichment table

normVars == <<arg, ret>>
widgetVars == <<mode, n_sets, split_mode, case_sensitive, set_names, files, pastes>>
vennVars == <<sets_dict, outcome, inter_df, inter_dict, exclusive_dict>>
goVars == <<input_method, gene_input, annotation_file, sort_by, top_n, gene_list, term_stats>>
vars == <<pc, normVars, widgetVars, vennVars, goVars>>

(***************************************************************************)
(* Bounds of the model.                                                    *)
(***************************************************************************)
MaxTextLen == 4    \* longest raw text handed to coerce_items
MaxRows == 2       \* most data rows of an uploaded table
MaxSets == 3       \* most named sets handed to the intersection engine
MaxFiles == 7      \* most files a user uploads at once
MaxAnnRows == 3    \* most rows of an annotation table

(***************************************************************************)
(* Strings.                                                                *)
(***************************************************************************)
Letters == {"a", "n", "N"}
Whitespace == {" ", "\t", "\n"}
AutoDelims == {"\n", ",", "\t", ";", "|"}
Chars == Letters \cup Whitespace \cup AutoDelims

Texts(maxLen) == UNION {[1..k -> Chars] : k \in 0..maxLen}

NanToken == <<"n", "a", "n">>

\* str.lower() on one character
LowerChar(c) == IF c = "N" THEN "n" ELSE IF c = "A" THEN "a" ELSE IF c = "B" THEN "b" ELSE c

\* ord(c): the code point of a character
ord(c) ==
    CASE c = "\t" -> 9 [] c = "\n" -> 10 [] c = " " -> 32 [] c = "," -> 44
      [] c = "1" -> 49 [] c = "2" -> 50 [] c = "3" -> 51 [] c = "4" -> 52
      [] c = "5" -> 53 [] c = "6" -> 54 [] c = ";" -> 59
      [] c = "A" -> 65 [] c = "B" -> 66 [] c = "C" -> 67 [] c = "N" -> 78
      [] c = "S" -> 83 [] c = "a" -> 97 [] c = "b" -> 98 [] c = "e" -> 101
      [] c = "n" -> 110 [] c = "t" -> 116 [] c = "|" -> 124 [] c = "cap" -> 8745

\* s < t for two Python strs: lexicographic on code points
RECURSIVE StrLess(_, _)
StrLess(s, t) ==
    IF t = <<>> THEN FALSE
    ELSE IF s = <<>> THEN TRUE
    ELSE IF Head(s) = Head(t) THEN StrLess(Tail(s), Tail(t))
    ELSE ord(Head(s)) < ord(Head(t))

lower(s) == [i \in 1..Len(s) |-> LowerChar(s[i])]

RECURSIVE lstrip(_)
lstrip(s) == IF s # <<>> /\ Head(s) \in Whitespace THEN lstrip(Tail(s)) ELSE s

RECURSIVE rstrip(_)
rstrip(s) ==
    IF s # <<>> /\ s[Len(s)] \in Whitespace THEN rstrip(SubSeq(s, 1, Len(s) - 1)) ELSE s

\* str.strip()
strip(s) == rstrip(lstrip(s))

\* sep.join(parts)
RECURSIVE join(_, _)
join(sep, parts) ==
    IF parts = <<>> THEN <<>>
    ELSE IF Len(parts) = 1 THEN parts[1]
    ELSE parts[1] \o sep \o join(sep, Tail(parts))

\* re.split(r"[D]+", text) from position i on: cur is the part being read,
\* inrun says that the previous character was a separator.
RECURSIVE re_split_from(_, _, _, _, _)
re_split_from(D, text, i, cur, inrun) ==
    IF i > Len(text) THEN <<cur>>
    ELSE IF text[i] \in D
         THEN IF inrun THEN re_split_from(D, text, i + 1, cur, TRUE)
              ELSE <<cur>> \o re_split_from(D, text, i + 1, <<>>, TRUE)
         ELSE re_split_from(D, text, i + 1, Append(cur, text[i]), FALSE)

re_split(D, text) == re_split_from(D, text, 1, <<>>, FALSE)

(***************************************************************************)
(* Item normalizer: coerce_items and read_file_to_set.                     *)
(***************************************************************************)
SplitModes ==
    {"Auto", "Newlines (one per line)", "Commas", "Tabs", "Semicolons", "Pipes (|)"}

\* the character class of the pattern each split mode splits on
Separators(sm) ==
    CASE sm = "Auto" -> AutoDelims
      [] sm = "Newlines (one per line)" -> {"\n"}
      [] sm = "Commas" -> {","}
      [] sm = "Tabs" -> {"\t"}
      [] sm = "Semicolons" -> {";"}
      [] sm = "Pipes (|)" -> {"|"}
      [] OTHER -> {}

\* the body of the loop over parts: strip, lower unless case sensitive
CleanNoStrip(p, cs) == IF cs THEN p ELSE lower(p)

Clean(p, cs) == IF cs THEN strip(p) ELSE lower(strip(p))

coerce_items(text, sm, cs) ==
    IF text = <<>> THEN {}
    ELSE LET parts == re_split(Separators(sm), text)
             cleaned == [i \in 1..Len(parts) |-> Clean(parts[i], cs)]
         IN  {cleaned[i] : i \in {j \in 1..Len(parts) : cleaned[j] # <<>>}}

\* A cell of a DataFrame: a missing value (NaN) or a string.
NaN == [na |-> TRUE, s |-> <<>>]
Str(s) == [na |-> FALSE, s |-> s]

\* astype(str) of a cell
astype_str(c) == IF c.na THEN NanToken ELSE c.s

\* df.values.ravel(): the cells row by row
RECURSIVE ravel(_)
ravel(rows) == IF rows = <<>> THEN <<>> ELSE Head(rows) \o ravel(Tail(rows))

\* An uploaded file: its decoded bytes (raw) and what pd.read_csv makes of
\* them: parsed = FALSE when it raises, else ncols columns and the data rows.
read_file_to_set(file, sm, cs) ==
    IF file.parsed
    THEN IF file.ncols = 1
         THEN LET col == [i \in 1..Len(file.rows) |-> file.rows[i][1]]
                  kept == SelectSeq(col, LAMBDA c : ~c.na)
                  series == [i \in 1..Len(kept) |-> astype_str(kept[i])]
              IN  coerce_items(join(<<"\n">>, series), "Newlines (one per line)", cs)
         ELSE LET cells == ravel(file.rows)
                  flat == [i \in 1..Len(cells) |-> astype_str(cells[i])]
                  kept == SelectSeq(flat, LAMBDA x : x # <<>> /\ lower(x) # NanToken)
              IN  coerce_items(join(<<"\n">>, kept), "Newlines (one per line)", cs)
    ELSE coerce_items(file.raw, sm, cs)

(***************************************************************************)
(* Calls of the normalizer on bounded inputs.                              *)
(***************************************************************************)
\* strings a cell of a parsed table can hold (pd.read_csv turns "nan", "NaN"
\* and the empty field into NaN itself)
CellPool == {NaN, Str(<<"a">>), Str(<<"N">>), Str(<<" ", "n">>)}

Tables ==
    UNION {{[parsed |-> TRUE, raw |-> <<>>, ncols |-> c, rows |-> r] :
                r \in [1..k -> [1..c -> CellPool]]} : k \in 0..MaxRows, c \in 1..2}

RawFiles ==
    {[parsed |-> FALSE, raw |-> t, ncols |-> 0, rows |-> <<>>] : t \in Texts(2)}

CoerceCall(t, sm, cs) ==
    [fn |-> "coerce_items", text |-> t, file |-> NaN, split_mode |-> sm, case_sensitive |-> cs]

ReadFileCall(f, sm, cs) ==
    [fn |-> "read_file_to_set", text |-> <<>>, file |-> f, split_mode |-> sm, case_sensitive |-> cs]

Idle == "idle"

WidgetsIdle ==
    /\ mode = Idle /\ n_sets = 0 /\ split_mode = Idle /\ case_sensitive = FALSE
    /\ set_names = <<>> /\ files = <<>> /\ pastes = <<>>

GoIdle ==
    /\ input_method = Idle /\ gene_input = <<>> /\ annotation_file = <<>>
    /\ sort_by = Idle /\ top_n = 0 /\ gene_list = {} /\ term_stats = <<>>

VennIdle ==
    /\ GoIdle
    /\ sets_dict = <<>> /\ outcome = Idle
    /\ inter_df = <<>> /\ inter_dict = <<>> /\ exclusive_dict = <<>>

InitNorm ==
    /\ pc = "norm_call"
    /\ \/ \E k \in 0..MaxTextLen : \E t \in [1..k -> Chars] :
              \E sm \in SplitModes, cs \in BOOLEAN : arg = CoerceCall(t, sm, cs)
       \/ \E f \in Tables \cup RawFiles :
              \E sm \in {"Auto", "Commas"}, cs \in BOOLEAN : arg = ReadFileCall(f, sm, cs)
    /\ ret = {}
    /\ WidgetsIdle
    /\ VennIdle

CallCoerceItems ==
    /\ pc = "norm_call"
    /\ arg.fn = "coerce_items"
    /\ ret' = coerce_items(arg.text, arg.split_mode, arg.case_sensitive)
    /\ pc' = "norm_done"
    /\ UNCHANGED <<goVars, arg, widgetVars, vennVars>>

CallReadFileToSet ==
    /\ pc = "norm_call"
    /\ arg.fn = "read_file_to_set"
    /\ ret' = read_file_to_set(arg.file, arg.split_mode, arg.case_sensitive)
    /\ pc' = "norm_done"
    /\ UNCHANGED <<goVars, arg, widgetVars, vennVars>>

NextNorm == CallCoerceItems \/ CallReadFileToSet

SpecNorm == InitNorm /\ [][NextNorm]_vars

\* the elements of a list
Range(f) == {f[i] : i \in DOMAIN f}

(***************************************************************************)
(* Python dicts.                                                           *)
(***************************************************************************)
Keys(d) == [i \in 1..Len(d) |-> d[i][1]]
Values(d) == [i \in 1..Len(d) |-> d[i][2]]
HasKey(d, k) == \E i \in 1..Len(d) : d[i][1] = k
Get(d, k) == d[CHOOSE i \in 1..Len(d) : d[i][1] = k][2]

\* d[k] = v
Put(d, k, v) ==
    IF HasKey(d, k)
    THEN [i \in 1..Len(d) |-> IF d[i][1] = k THEN <<k, v>> ELSE d[i]]
    ELSE Append(d, <<k, v>>)

(***************************************************************************)
(* Multi-set intersection engine: sets_to_intersections and                *)
(* exclusive_to_each_set.                                                  *)
(***************************************************************************)
\* " ∩ "
CapSep == <<" ", "cap", " ">>

\* itertools.combinations over the positions lo..n, k at a time, in the
\* order itertools yields them
RECURSIVE CombFrom(_, _, _)
CombFrom(lo, n, k) ==
    IF k = 0 THEN << <<>> >>
    ELSE IF n - lo + 1 < k THEN <<>>
    ELSE LET rest == CombFrom(lo + 1, n, k - 1)
         IN  [i \in 1..Len(rest) |-> <<lo>> \o rest[i]] \o CombFrom(lo + 1, n, k)

combinations(names, k) ==
    LET pos == CombFrom(1, Len(names), k)
    IN  [i \in 1..Len(pos) |-> [j \in 1..k |-> names[pos[i][j]]]]

\* the combinations of the two nested loops, k = lo, ..., hi
RECURSIVE CombLoop(_, _, _)
CombLoop(names, lo, hi) ==
    IF lo > hi THEN <<>> ELSE combinations(names, lo) \o CombLoop(names, lo + 1, hi)

AllCombsShort(names) == CombLoop(names, 1, Len(names) - 1)

AllCombs(names) == CombLoop(names, 1, Len(names))

\* set.intersection(*(sets_dict[name] for name in comb))
Intersection(sd, comb) ==
    {x \in Get(sd, comb[1]) : \A j \in 1..Len(comb) : x \in Get(sd, comb[j])}

\* the list data: one record per combination; idx is the row's index label
\* in the DataFrame built from it
Data(sd) ==
    LET combs == AllCombs(Keys(sd))
    IN  [i \in 1..Len(combs) |->
            [idx |-> i - 1,
             Sets |-> join(CapSep, combs[i]),
             Size |-> Cardinality(Intersection(sd, combs[i]))]]

RECURSIVE InterDictFrom(_, _, _, _)
InterDictFrom(sd, combs, i, acc) ==
    IF i > Len(combs) THEN acc
    ELSE InterDictFrom(sd, combs, i + 1,
                       Put(acc, join(CapSep, combs[i]), Intersection(sd, combs[i])))

InterDict(sd) == InterDictFrom(sd, AllCombs(Keys(sd)), 1, <<>>)

\* row a sorts strictly before row b under ["Size", "Sets"], ascending=[True, True]
RowBeforeAscending(a, b) ==
    \/ a.Size < b.Size
    \/ a.Size = b.Size /\ StrLess(a.Sets, b.Sets)

\* row a sorts strictly before row b under ["Size", "Sets"], ascending=[False, True]
RowBefore(a, b) ==
    \/ a.Size > b.Size
    \/ a.Size = b.Size /\ StrLess(a.Sets, b.Sets)

\* stable insertion of row r into the sorted rows: before the first row that
\* r sorts strictly before, after every row it ties with
Insert(sorted, r) ==
    LET later == {i \in 1..Len(sorted) : RowBefore(r, sorted[i])}
        k == IF later = {} THEN Len(sorted) + 1
             ELSE CHOOSE i \in later : \A j \in later : i <= j
    IN  SubSeq(sorted, 1, k - 1) \o <<r>> \o SubSeq(sorted, k, Len(sorted))

\* DataFrame.sort_values(["Size", "Sets"], ascending=[False, True]): a stable sort
RECURSIVE sort_values(_)
sort_values(rows) ==
    IF rows = <<>> THEN <<>>
    ELSE Insert(sort_values(SubSeq(rows, 1, Len(rows) - 1)), rows[Len(rows)])

sets_to_intersections(sd) == [df |-> sort_values(Data(sd)), inter_dict |-> InterDict(sd)]

UnionOf(sets) == UNION {sets[i] : i \in 1..Len(sets)}

\* exclusive_to_each_set without the filter k != key
exclusive_no_filter(sd) ==
    [i \in 1..Len(sd) |-> <<sd[i][1], sd[i][2] \ UnionOf(Values(sd))>>]

\* exclusive_to_each_set without the set difference
exclusive_no_difference(sd) == [i \in 1..Len(sd) |-> <<sd[i][1], sd[i][2]>>]

exclusive_to_each_set(sd) ==
    [i \in 1..Len(sd) |->
        LET others == SelectSeq(sd, LAMBDA e : e[1] # sd[i][1])
        IN  <<sd[i][1], sd[i][2] \ UnionOf(Values(others))>>]

(***************************************************************************)
(* Calls of the engine on bounded inputs.                                  *)
(***************************************************************************)
NameA == <<"A">>
NameB == <<"B">>
NameC == <<"C">>
NameLowerA == <<"a">>
NameAcapB == <<"A", " ", "cap", " ", "B">>

\* orders in which the sets may be named; a run uses the first N names
NameOrders ==
    { <<NameA, NameB, NameAcapB, NameC, NameLowerA>>,
      <<NameLowerA, NameAcapB, NameB, NameA, NameC>>,
      <<NameC, NameB, NameLowerA, NameA, NameAcapB>> }

\* the items the named sets draw from
ItemSeq == << <<"a">>, <<"n">>, <<"a", "n">> >>
Items == Range(ItemSeq)

\* the dict of n sets named by the first n names of an order
NamedSets(names, members, n) == [i \in 1..n |-> <<names[i], members[i]>>]

NormIdle == arg = NaN /\ ret = {}

InitEngine ==
    /\ pc = "engine_call"
    /\ \E n \in 2..MaxSets : \E names \in NameOrders :
           \E members \in [1..n -> (SUBSET Items) \ {{}}] :
               sets_dict = NamedSets(names, members, n)
    /\ outcome = Idle
    /\ inter_df = <<>> /\ inter_dict = <<>> /\ exclusive_dict = <<>>
    /\ NormIdle
    /\ WidgetsIdle
    /\ GoIdle

CallSetsToIntersections ==
    /\ pc = "engine_call"
    /\ LET r == sets_to_intersections(sets_dict)
       IN  inter_df' = r.df /\ inter_dict' = r.inter_dict
    /\ pc' = "engine_inter"
    /\ UNCHANGED <<goVars, normVars, widgetVars, sets_dict, outcome, exclusive_dict>>

CallExclusiveToEachSet ==
    /\ pc = "engine_inter"
    /\ exclusive_dict' = exclusive_to_each_set(sets_dict)
    /\ pc' = "engine_done"
    /\ UNCHANGED <<goVars, normVars, widgetVars, sets_dict, outcome, inter_df, inter_dict>>

NextEngine == CallSetsToIntersections \/ CallExclusiveToEachSet

SpecEngine == InitEngine /\ [][NextEngine]_vars

(***************************************************************************)
(* The script of venn_app.py: one run from the values of its widgets.      *)
(***************************************************************************)
NSetsMin == 2
NSetsMax == 6

Modes == {"Upload files", "Paste lists"}

\* f"Set {i+1}"
DefaultName(i) ==
    <<"S", "e", "t", " ">> \o <<(<<"1", "2", "3", "4", "5", "6">>)[i]>>

\* what the user may type into the label of set i
LabelPool(i) ==
    {DefaultName(i)}
    \cup (IF i <= 4 THEN {DefaultName(1)} ELSE {})
    \cup (IF i = 3 THEN {join(CapSep, <<DefaultName(1), DefaultName(2)>>)} ELSE {})

\* the split modes and case settings the runs are made with
SidebarSettings ==
    {[split_mode |-> "Auto", case_sensitive |-> FALSE],
     [split_mode |-> "Newlines (one per line)", case_sensitive |-> TRUE]}

EmptyFile == [parsed |-> FALSE, raw |-> <<>>, ncols |-> 0, rows |-> <<>>]
FileA == [parsed |-> TRUE, raw |-> <<>>, ncols |-> 1, rows |-> << <<Str(<<"a">>)>> >>]
FilePool == {EmptyFile, FileA}

PastePool == {<<>>, <<",">>, <<"a">>}

\* the keys of the region colour pickers of the sidebar
RegionKeys(names) ==
    LET combs == AllCombs(names)
    IN  [i \in 1..Len(combs) |-> join(<<"_">>, combs[i])]

\* Streamlit refuses a second widget with a key already used in the run
DuplicateWidgetKey ==
    /\ n_sets <= 3
    /\ LET keys == RegionKeys(set_names)
       IN  \E i, j \in 1..Len(keys) : i # j /\ keys[i] = keys[j]

RECURSIVE UploadSets(_, _, _)
UploadSets(fs, i, acc) ==
    IF i > Len(fs) THEN acc
    ELSE UploadSets(fs, i + 1,
                    Put(acc, set_names[i], read_file_to_set(fs[i], split_mode, case_sensitive)))

RECURSIVE PasteSets(_, _)
PasteSets(i, acc) ==
    IF i > n_sets THEN acc
    ELSE PasteSets(i + 1,
                   Put(acc, set_names[i], coerce_items(pastes[i], split_mode, case_sensitive)))

Min(a, b) == IF a < b THEN a ELSE b

\* sets_dict as the script builds it from the uploaded files or pasted lists
BuildSets ==
    IF mode = "Upload files"
    THEN IF files # <<>> THEN UploadSets(SubSeq(files, 1, Min(Len(files), n_sets)), 1, <<>>)
         ELSE <<>>
    ELSE PasteSets(1, <<>>)

\* the guard with any() in place of all()
AnyGuard(sd) == sd # <<>> /\ \E i \in 1..Len(sd) : Cardinality(sd[i][2]) > 0

\* sets_dict and all(len(s) > 0 for s in sets_dict.values())
AnalysisGuard(sd) == sd # <<>> /\ \A i \in 1..Len(sd) : Cardinality(sd[i][2]) > 0

\* The plotting calls are library code. draw_venn_2_3 hands two sets to venn2
\* and any other number to venn3, which takes three; draw_venn_4_6 hands the
\* dict to venn, which takes two to six. With any other number of sets the
\* library raises; with these numbers the call may still raise, which the
\* model leaves open (RunRenderError).
RendererAccepts(sd) ==
    IF n_sets \in {2, 3} THEN Len(sd) \in {2, 3} ELSE Len(sd) \in 2..6

AppConfigs(m, n) ==
    IF m = "Upload files"
    THEN {[files |-> fs, pastes |-> <<>>] :
             fs \in UNION {[1..k -> FilePool] : k \in 0..MaxFiles}}
    ELSE {[files |-> <<>>, pastes |-> ps] : ps \in [1..n -> PastePool]}

InitApp ==
    /\ pc = "app_input"
    /\ mode \in Modes
    /\ n_sets \in NSetsMin..NSetsMax
    /\ \E st \in SidebarSettings :
           split_mode = st.split_mode /\ case_sensitive = st.case_sensitive
    /\ set_names \in {names \in [1..n_sets -> UNION {LabelPool(i) : i \in 1..n_sets}] :
                         \A i \in 1..n_sets : names[i] \in LabelPool(i)}
    /\ \E c \in AppConfigs(mode, n_sets) : files = c.files /\ pastes = c.pastes
    /\ NormIdle
    /\ VennIdle

\* a region colour picker of the sidebar repeats a key: the run ends there
RunSidebarError ==
    /\ pc = "app_input"
    /\ DuplicateWidgetKey
    /\ outcome' = "exception"
    /\ pc' = "app_done"
    /\ UNCHANGED <<goVars, normVars, widgetVars, sets_dict, inter_df, inter_dict, exclusive_dict>>

\* the else branch of the analysis guard: st.info
RunInfo ==
    /\ pc = "app_input"
    /\ ~DuplicateWidgetKey
    /\ ~AnalysisGuard(BuildSets)
    /\ sets_dict' = BuildSets
    /\ outcome' = "info"
    /\ pc' = "app_done"
    /\ UNCHANGED <<goVars, normVars, widgetVars, inter_df, inter_dict, exclusive_dict>>

\* the plotting call raises: the run ends with the exception shown, before
\* the tables
RunRenderError ==
    /\ pc = "app_input"
    /\ ~DuplicateWidgetKey
    /\ AnalysisGuard(BuildSets)
    /\ sets_dict' = BuildSets
    /\ outcome' = "exception"
    /\ pc' = "app_done"
    /\ UNCHANGED <<goVars, normVars, widgetVars, inter_df, inter_dict, exclusive_dict>>

\* the plotting call returns: the analysis branch through to the exclusive
\* items
RunAnalysis ==
    /\ pc = "app_input"
    /\ ~DuplicateWidgetKey
    /\ AnalysisGuard(BuildSets)
    /\ RendererAccepts(BuildSets)
    /\ sets_dict' = BuildSets
    /\ LET r == sets_to_intersections(BuildSets)
       IN  inter_df' = r.df /\ inter_dict' = r.inter_dict
    /\ exclusive_dict' = exclusive_to_each_set(BuildSets)
    /\ outcome' = "analysis"
    /\ pc' = "app_done"
    /\ UNCHANGED <<goVars, normVars, widgetVars>>

NextApp == RunSidebarError \/ RunInfo \/ RunRenderError \/ RunAnalysis

SpecApp == InitApp /\ [][NextApp]_vars

(***************************************************************************)
(* The script of GOKEGG.py: one run from its inputs.                       *)
(***************************************************************************)
TopNMin == 5
\* p-values are counted in thousandths: 1000 is the 1.0 given to every term
\* when the annotation has no p-value column
PvalueDefault == 1000

\* the character class of the pattern the pasted gene list is split on
GeneSeparators == {"\n", ",", ";", "\t", " "}

\* list({g.strip() for g in re.split(...) if g.strip()}); the order of the
\* list is never used
PastedGenes(text) ==
    LET parts == re_split(GeneSeparators, text)
    IN  {strip(parts[i]) : i \in {j \in 1..Len(parts) : strip(parts[j]) # <<>>}}

\* list(df.iloc[:, 0].dropna().astype(str).unique()) of an uploaded gene
\* file, [] when none is uploaded
UploadedGenes(file) ==
    IF ~file.uploaded THEN {}
    ELSE {astype_str(file.rows[i][1]) : i \in {j \in 1..Len(file.rows) : ~file.rows[j][1].na}}

GeneList ==
    IF input_method = "Paste gene list" THEN PastedGenes(gene_input)
    ELSE UploadedGenes(gene_input)

\* ann_df[ann_df["GeneID"].isin(gene_list)]
FilteredDf(genes) == SelectSeq(annotation_file.rows, LAMBDA r : r.GeneID \in genes)

\* the keys of a groupby, sorted
RECURSIVE SortedStrs(_)
SortedStrs(S) ==
    IF S = {} THEN <<>>
    ELSE LET m == CHOOSE x \in S : \A y \in S : ~StrLess(y, x)
         IN  <<m>> \o SortedStrs(S \ {m})

\* filtered_df.groupby("Term").agg(gene_count=("GeneID", "count")).reset_index()
GroupCount(rows) ==
    LET terms == SortedStrs({rows[i].Term : i \in 1..Len(rows)})
    IN  [i \in 1..Len(terms) |->
            [Term |-> terms[i],
             gene_count |-> Len(SelectSeq(rows, LAMBDA r : r.Term = terms[i]))]]

\* ann_df[["Term", "p-value"]].drop_duplicates()
RECURSIVE DropDuplicates(_, _)
DropDuplicates(rows, seen) ==
    IF rows = <<>> THEN <<>>
    ELSE LET h == [Term |-> Head(rows).Term, pvalue |-> Head(rows).pvalue]
         IN  IF h \in seen THEN DropDuplicates(Tail(rows), seen)
             ELSE <<h>> \o DropDuplicates(Tail(rows), seen \cup {h})

\* pd.merge(term_stats, pval_df, on="Term", how="left")
RECURSIVE MergeLeft(_, _)
MergeLeft(left, right) ==
    IF left = <<>> THEN <<>>
    ELSE LET l == Head(left)
             m == SelectSeq(right, LAMBDA r : r.Term = l.Term)
         IN  [i \in 1..Len(m) |->
                 [Term |-> l.Term, gene_count |-> l.gene_count, pvalue |-> m[i].pvalue]]
             \o MergeLeft(Tail(left), right)

\* the table before it is sorted
WithPvalues(stats) ==
    IF annotation_file.has_pvalue
    THEN MergeLeft(stats, DropDuplicates(annotation_file.rows, {}))
    ELSE [i \in 1..Len(stats) |->
             [Term |-> stats[i].Term, gene_count |-> stats[i].gene_count,
              pvalue |-> PvalueDefault]]

\* sort_values on one column does not fix the order of rows with equal keys:
\* every arrangement of the rows that is in the order of the keys
SortChoices(rows, by) ==
    {t \in [1..Len(rows) -> Range(rows)] :
        /\ \A r \in Range(rows) : \E i \in 1..Len(rows) : t[i] = r
        /\ \A i, j \in 1..Len(rows) :
               i < j => IF by = "p-value" THEN t[i].pvalue <= t[j].pvalue
                        ELSE t[i].gene_count >= t[j].gene_count}

\* .head(n)
head(rows, n) == SubSeq(rows, 1, Min(Len(rows), n))

(***************************************************************************)
(* Runs of GOKEGG.py on bounded inputs.                                    *)
(***************************************************************************)
GeneTexts ==
    {<<>>, <<" ">>, <<"a">>, <<"a", ",", "n">>, <<"a", " ", "a">>, <<" ", "n", ";">>}

GeneFiles ==
    {[uploaded |-> FALSE, rows |-> <<>>],
     [uploaded |-> TRUE, rows |-> << <<NaN>> >>],
     [uploaded |-> TRUE, rows |-> << <<Str(<<"a">>)>>, <<Str(<<"a">>)>> >>],
     [uploaded |-> TRUE, rows |-> << <<Str(<<"n">>)>>, <<Str(<<"a">>)>> >>]}

TermPool == {NameA, NameB}
GenePool == {<<"a">>, <<"n">>}
PvaluePool == {10, 50}

AnnRows == [Term : TermPool, GeneID : GenePool, pvalue : PvaluePool]

\* the annotation upload: none, or a table without the Term and GeneID columns
NoAnnotation ==
    {[uploaded |-> FALSE, columns_ok |-> FALSE, has_pvalue |-> FALSE, rows |-> <<>>],
     [uploaded |-> TRUE, columns_ok |-> FALSE, has_pvalue |-> FALSE, rows |-> <<>>]}

\* an annotation table with the columns, with or without a p-value column
Annotation(hp, r) == [uploaded |-> TRUE, columns_ok |-> TRUE, has_pvalue |-> hp, rows |-> r]

InitGo ==
    /\ pc = "go_input"
    /\ input_method \in {"Paste gene list", "Upload gene list file"}
    /\ gene_input \in (IF input_method = "Paste gene list" THEN GeneTexts ELSE GeneFiles)
    /\ \/ annotation_file \in NoAnnotation
       \/ \E hp \in BOOLEAN : \E k \in 0..MaxAnnRows : \E r \in [1..k -> AnnRows] :
              annotation_file = Annotation(hp, r)
    /\ sort_by \in {"p-value", "gene count"}
    /\ top_n = TopNMin
    /\ gene_list = {} /\ term_stats = <<>>
    /\ NormIdle
    /\ WidgetsIdle
    /\ sets_dict = <<>> /\ outcome = Idle
    /\ inter_df = <<>> /\ inter_dict = <<>> /\ exclusive_dict = <<>>

goInputs == <<input_method, gene_input, annotation_file, sort_by, top_n>>

\* if not gene_list: st.warning, st.stop
RunNoGenes ==
    /\ pc = "go_input"
    /\ GeneList = {}
    /\ outcome' = "warning_no_genes"
    /\ pc' = "go_done"
    /\ UNCHANGED <<goInputs, gene_list, term_stats, normVars, widgetVars,
                   sets_dict, inter_df, inter_dict, exclusive_dict>>

\* no annotation file: st.info
RunNoAnnotation ==
    /\ pc = "go_input"
    /\ GeneList # {}
    /\ ~annotation_file.uploaded
    /\ gene_list' = GeneList
    /\ outcome' = "info_no_annotation"
    /\ pc' = "go_done"
    /\ UNCHANGED <<goInputs, term_stats, normVars, widgetVars,
                   sets_dict, inter_df, inter_dict, exclusive_dict>>

\* the annotation lacks Term or GeneID: st.error, st.stop
RunBadColumns ==
    /\ pc = "go_input"
    /\ GeneList # {}
    /\ annotation_file.uploaded
    /\ ~annotation_file.columns_ok
    /\ gene_list' = GeneList
    /\ outcome' = "error_columns"
    /\ pc' = "go_done"
    /\ UNCHANGED <<goInputs, term_stats, normVars, widgetVars,
                   sets_dict, inter_df, inter_dict, exclusive_dict>>

\* filtered_df.empty: st.warning, st.stop
RunNoMatch ==
    /\ pc = "go_input"
    /\ GeneList # {}
    /\ annotation_file.uploaded
    /\ annotation_file.columns_ok
    /\ FilteredDf(GeneList) = <<>>
    /\ gene_list' = GeneList
    /\ outcome' = "warning_no_match"
    /\ pc' = "go_done"
    /\ UNCHANGED <<goInputs, term_stats, normVars, widgetVars,
                   sets_dict, inter_df, inter_dict, exclusive_dict>>

\* the enrichment table: aggregate, merge the p-values, sort and limit
RunTable ==
    /\ pc = "go_input"
    /\ GeneList # {}
    /\ annotation_file.uploaded
    /\ annotation_file.columns_ok
    /\ FilteredDf(GeneList) # <<>>
    /\ gene_list' = GeneList
    /\ \E sorted \in SortChoices(WithPvalues(GroupCount(FilteredDf(GeneList))), sort_by) :
           term_stats' = head(sorted, top_n)
    /\ outcome' = "table"
    /\ pc' = "go_done"
    /\ UNCHANGED <<goInputs, normVars, widgetVars,
                   sets_dict, inter_df, inter_dict, exclusive_dict>>

NextGo == RunNoGenes \/ RunNoAnnotation \/ RunBadColumns \/ RunNoMatch \/ RunTable

SpecGo == InitGo /\ [][NextGo]_vars

(***************************************************************************)
(* Properties.                                                             *)
(***************************************************************************)
RECURSIVE Pow2(_)
Pow2(n) == IF n = 0 THEN 1 ELSE 2 * Pow2(n - 1)

RECURSIVE SumSizes(_)
SumSizes(sets) == IF sets = <<>> THEN 0 ELSE Cardinality(Head(sets)) + SumSizes(Tail(sets))

NameSet == Range(Keys(sets_dict))

\* the items that belong to every set named in names
Common(names) == {x \in UnionOf(Values(sets_dict)) : \A nm \in names : x \in Get(sets_dict, nm)}

\* the combination a row of the table was computed for: the row with index
\* label i comes from the (i+1)-th combination of the enumeration
CombOfRow(r) == Range(AllCombs(Keys(sets_dict))[r.idx + 1])

TableDone == pc \in {"engine_inter", "engine_done"}

\* C1: for N distinctly named sets, 2 <= N <= 6, the table returned by
\* sets_to_intersections has exactly 2^N - 1 rows, one for each non-empty
\* subset of the set names, and no subset appears twice.
C1_RowPerSubset ==
    TableDone =>
        LET combs == AllCombs(Keys(sets_dict))
            rowComb == [i \in 1..Len(inter_df) |-> Range(combs[inter_df[i].idx + 1])]
        IN  /\ Len(inter_df) = Pow2(Len(sets_dict)) - 1
            /\ \A S \in (SUBSET NameSet) \ {{}} : \E i \in 1..Len(inter_df) : rowComb[i] = S
            /\ \A i, j \in 1..Len(inter_df) : i < j => rowComb[i] # rowComb[j]

C1_Witness ==
    /\ pc = "engine_done"
    /\ Len(sets_dict) = 3
    /\ Len(inter_df) = 7
    /\ \E i \in 1..7 : CombOfRow(inter_df[i]) = NameSet

\* C2: for every row of the table, the elements recorded for the row's
\* combination are exactly the items that belong to every set the combination
\* names, the row's Size is their number, and the combination of a single set
\* yields that set itself.
C2_RowIsIntersection ==
    TableDone =>
        \A i \in 1..Len(inter_df) :
            LET r == inter_df[i]
                comb == CombOfRow(r)
            IN  /\ HasKey(inter_dict, r.Sets)
                /\ Get(inter_dict, r.Sets) = Common(comb)
                /\ r.Size = Cardinality(Common(comb))
                /\ \A nm \in NameSet :
                       comb = {nm} => Get(inter_dict, r.Sets) = Get(sets_dict, nm)

\* C3: for every named set, exclusive_to_each_set returns exactly the members
\* of that set that belong to none of the other sets.
C3_ExclusiveMembers ==
    pc = "engine_done" =>
        /\ Keys(exclusive_dict) = Keys(sets_dict)
        /\ \A nm \in NameSet :
               Get(exclusive_dict, nm) =
                   {x \in Get(sets_dict, nm) :
                        \A other \in NameSet \ {nm} : x \notin Get(sets_dict, other)}

\* X = {a, n}, Y = {n, an}: X -> {a}, Y -> {an}
C3_Witness ==
    /\ pc = "engine_done"
    /\ Len(sets_dict) = 2
    /\ sets_dict[1][2] = {ItemSeq[1], ItemSeq[2]}
    /\ sets_dict[2][2] = {ItemSeq[2], ItemSeq[3]}
    /\ Values(exclusive_dict) = << {ItemSeq[1]}, {ItemSeq[3]} >>

\* C4: the exclusive regions are pairwise disjoint across all sets, and the
\* sum of their sizes does not exceed the sum of the input set sizes.
C4_ExclusivePartition ==
    pc = "engine_done" =>
        /\ \A i, j \in 1..Len(exclusive_dict) :
               i # j => exclusive_dict[i][2] \cap exclusive_dict[j][2] = {}
        /\ SumSizes(Values(exclusive_dict)) <= SumSizes(Values(sets_dict))

\* three overlapping sets, two of them with a non-empty exclusive region
C4_Witness ==
    /\ pc = "engine_done"
    /\ Len(sets_dict) = 3
    /\ \E i, j \in 1..3 : i # j /\ sets_dict[i][2] \cap sets_dict[j][2] # {}
    /\ \E i, j \in 1..3 : i # j /\ exclusive_dict[i][2] # {} /\ exclusive_dict[j][2] # {}
    /\ SumSizes(Values(exclusive_dict)) < SumSizes(Values(sets_dict))

\* C5: the table is ordered by Size descending; rows of equal Size are ordered
\* by their label (the names joined with " ∩ ") ascending; rows equal in both
\* keep the order in which they were computed, so that the row order is a
\* function of the input.
C5_TableOrder ==
    TableDone =>
        \A i, j \in 1..Len(inter_df) :
            i < j =>
                LET a == inter_df[i]
                    b == inter_df[j]
                IN  /\ a.Size >= b.Size
                    /\ a.Size = b.Size => ~StrLess(b.Sets, a.Sets)
                    /\ (a.Size = b.Size /\ a.Sets = b.Sets) => a.idx < b.idx

\* a table with rows of different sizes and with rows of equal size whose
\* order the labels decide against the order of computation
C5_Witness ==
    /\ pc = "engine_done"
    /\ Len(sets_dict) = 3
    /\ \E i \in 1..6 : inter_df[i].Size > inter_df[i + 1].Size
    /\ \E i \in 1..6 :
           /\ inter_df[i].Size = inter_df[i + 1].Size
           /\ StrLess(inter_df[i].Sets, inter_df[i + 1].Sets)
           /\ inter_df[i].idx > inter_df[i + 1].idx

\* a maximal stretch of text without a character of D
IsSegment(D, text, i, j) ==
    /\ i <= j
    /\ \A k \in i..j : text[k] \notin D
    /\ i = 1 \/ text[i - 1] \in D
    /\ j = Len(text) \/ text[j + 1] \in D

\* the token a segment of the text contributes: the segment without the
\* whitespace around it, in lower case unless matching is case sensitive
TokenOf(text, i, j, cs) ==
    LET inner == {k \in i..j : text[k] \notin Whitespace}
    IN  IF inner = {} THEN <<>>
        ELSE LET lo == CHOOSE k \in inner : \A m \in inner : k <= m
                 hi == CHOOSE k \in inner : \A m \in inner : k >= m
                 core == SubSeq(text, lo, hi)
             IN  IF cs THEN core ELSE lower(core)

CoerceDone == pc = "norm_done" /\ arg.fn = "coerce_items"

\* C8: for every text and every split mode, coerce_items returns a set in
\* which no token is empty and no token begins or ends with whitespace; under
\* "Auto" any run of newline, comma, tab, semicolon or pipe characters is one
\* separator: the tokens are those of the maximal stretches between the runs,
\* and no token contains any of the five characters.
C8_CleanTokens ==
    CoerceDone =>
        /\ \A t \in ret :
               t # <<>> /\ t[1] \notin Whitespace /\ t[Len(t)] \notin Whitespace
        /\ arg.split_mode = "Auto" =>
               /\ \A t \in ret : \A k \in 1..Len(t) : t[k] \notin AutoDelims
               /\ ret = {TokenOf(arg.text, i, j, arg.case_sensitive) :
                            <<i, j>> \in {p \in (1..Len(arg.text)) \X (1..Len(arg.text)) :
                                             IsSegment(AutoDelims, arg.text, p[1], p[2])}}
                        \ {<<>>}

\* "a,;N" under Auto, case insensitive: the run ",;" separates a from n
C8_Witness ==
    /\ CoerceDone
    /\ arg.text = <<"a", ",", ";", "N">>
    /\ arg.split_mode = "Auto"
    /\ ~arg.case_sensitive
    /\ ret = {<<"a">>, <<"n">>}

\* C9: the token "nan", in any letter case, never appears in a normalized
\* set, whatever the input path (pasted text, single-column file,
\* multi-column file, plain-text fallback), split mode and case sensitivity.
C9_NanNeverKept ==
    pc = "norm_done" => \A t \in ret : lower(t) # NanToken

\* the named sets were fewer than 2 or more than 6: too few or too many
\* uploaded files, or labels that coincide
SetCountOutOfRange ==
    \/ mode = "Upload files" /\ (Len(files) < NSetsMin \/ Len(files) > NSetsMax)
    \/ Cardinality(Range(set_names)) < NSetsMin

\* C6: whenever fewer than 2 or more than 6 named sets are supplied in a run
\* (a 7th uploaded file, fewer files than sets, coinciding labels), the run
\* halts without an intersection table, not even a partial one.
C6_SetCountHalts ==
    (pc = "app_done" /\ SetCountOutOfRange) =>
        outcome # "analysis" /\ inter_df = <<>> /\ inter_dict = <<>>

SomeSetEmpty == \E i \in 1..Len(sets_dict) : sets_dict[i][2] = {}

\* C7: if a named set of the run is empty after normalization, the run
\* produces no intersection table and no exclusive items: it shows a message
\* and ends without an error.
C7_EmptySetHalts ==
    (pc = "app_done" /\ SomeSetEmpty) =>
        /\ outcome = "info"
        /\ inter_df = <<>> /\ inter_dict = <<>> /\ exclusive_dict = <<>>

\* pasted lists under Auto, one of them "," (no item after normalization)
\* beside one with an item
C7_Witness ==
    /\ pc = "app_done"
    /\ mode = "Paste lists"
    /\ split_mode = "Auto"
    /\ \E i, j \in 1..n_sets :
           /\ pastes[i] = <<",">> /\ Get(sets_dict, set_names[i]) = {}
           /\ pastes[j] = <<"a">> /\ Get(sets_dict, set_names[j]) = {<<"a">>}
    /\ outcome = "info"

\* C10: in every record of the enrichment table, gene_count is at most the
\* number of different genes of the query and at most the number of different
\* genes annotated to the record's term, also when (GeneID, Term) rows repeat.
C10_OverlapBounded ==
    (pc = "go_done" /\ outcome = "table") =>
        \A i \in 1..Len(term_stats) :
            /\ term_stats[i].gene_count <= Cardinality(gene_list)
            /\ term_stats[i].gene_count <=
                   Cardinality({annotation_file.rows[j].GeneID :
                                   j \in {k \in 1..Len(annotation_file.rows) :
                                             annotation_file.rows[k].Term = term_stats[i].Term}})

\* the binomial coefficient n over k
RECURSIVE Binom(_, _)
Binom(n, k) ==
    IF k < 0 \/ k > n THEN 0
    ELSE IF k = 0 THEN 1
    ELSE (Binom(n - 1, k - 1) * n) \div k

RECURSIVE SumOver(_, _, _)
SumOver(F(_), lo, hi) == IF lo > hi THEN 0 ELSE F(lo) + SumOver(F, lo + 1, hi)

\* the universe of a run: the genes of the background annotation
Universe == {annotation_file.rows[j].GeneID : j \in 1..Len(annotation_file.rows)}

\* the genes the annotation gives to a term
TermGenes(term) ==
    {annotation_file.rows[j].GeneID :
        j \in {k \in 1..Len(annotation_file.rows) : annotation_file.rows[k].Term = term}}

\* the number of ways to draw query_size genes of the universe with at least
\* overlap of them in the term: the numerator of the one-sided ("greater")
\* exact test on [[overlap, query_size - overlap], [term_size - overlap, rest]]
GreaterTail(overlap, query_size, term_size, universe_size) ==
    LET Ways(i) == Binom(term_size, i) * Binom(universe_size - term_size, query_size - i)
    IN  SumOver(Ways, overlap, Min(query_size, term_size))

\* C11: for each term of the enrichment table, the reported p-value is the
\* one-sided (greater) exact-test p-value of the 2x2 table built from the
\* overlap count, the query size, the term size and the universe size:
\* p-value = GreaterTail / Binom(universe_size, query_size), with the p-value
\* in units of 1 / PvalueDefault.
C11_ExactPvalue ==
    (pc = "go_done" /\ outcome = "table") =>
        \A i \in 1..Len(term_stats) :
            LET query == gene_list \cap Universe
                genes == TermGenes(term_stats[i].Term)
                overlap == Cardinality(query \cap genes)
            IN  term_stats[i].pvalue * Binom(Cardinality(Universe), Cardinality(query)) =
                    PvalueDefault * GreaterTail(overlap, Cardinality(query),
                                                Cardinality(genes), Cardinality(Universe))

\* C12: under the default sort the enrichment table is in ascending order of
\* p-value, and records with equal p-value are in descending order of their
\* overlap count.
C12_TableSorted ==
    (pc = "go_done" /\ outcome = "table" /\ sort_by = "p-value") =>
        \A i, j \in 1..Len(term_stats) :
            i < j =>
                \/ term_stats[i].pvalue < term_stats[j].pvalue
                \/ /\ term_stats[i].pvalue = term_stats[j].pvalue
                   /\ term_stats[i].gene_count >= term_stats[j].gene_count

\* C13: in the enrichment table each term appears in at most one record, also
\* when the rows of the annotation give one term different p-values, and the
\* table has at most top_n records.
C13_OneRecordPerTerm ==
    (pc = "go_done" /\ outcome = "table") =>
        /\ \A i, j \in 1..Len(term_stats) :
               term_stats[i].Term = term_stats[j].Term => i = j
        /\ Len(term_stats) <= top_n

====
